---- MODULE Spec2Model ----
(***************************************************************************)
(* State-machine model of the UnicornClock runtime controller:             *)
(*   - unicornclock/brightness.py : class Brightness (rolling light        *)
(*     average, target computation, hysteresis, smoothing ramp, manual     *)
(*     level adjustment);                                                  *)
(*   - example.py : debounced button handlers, load_example,               *)
(*     load_current_example and the mode loop of buttons_handler with its  *)
(*     settings persistence.                                               *)
(*                                                                         *)
(* Brightness values are Python floats in [0,1].  They are represented     *)
(* exactly as integers in units of 1/Scale, Scale = 7200, which makes      *)
(* every value the code computes an integer: level/100 is level*72, the    *)
(* interpolation 0.06 + (sum/n - 15)/6 * 0.25 is 432 + (sum-15n)*300/n     *)
(* for n in 1..5, TARGET_EPSILON is 36 and the ramp step is 144.           *)
(***************************************************************************)
EXTENDS Integers, Sequences, FiniteSets, TLC

VARIABLES
    \* ---- Brightness object (brightness.py) ----
    brightness_mode,      \* Brightness.mode
    level,                \* Brightness.level
    current_brightness,   \* Brightness.current_brightness
    light_readings,       \* Brightness.light_readings
    stable_target,        \* Brightness.stable_target
    pending_target,       \* Brightness.pending_target (None when unset)
    pending_since,        \* Brightness.pending_since  (None when unset)
    actuator,             \* galactic brightness: last value given to set_brightness
    ticks,                \* time.ticks_ms() at the most recent call
    \* ---- history of the Brightness operations ----
    last_op,              \* name of the last operation performed
    prev_current,         \* current_brightness when the last update() was entered
    op_start_current,     \* current_brightness before the last operation
    op_start_level,       \* level before the last operation
    writes,               \* values the last operation gave to galactic.set_brightness
    pend_elapsed,         \* real ms since pending_target was assigned (saturating)
    pend_all_close,       \* every candidate since then was within EPSILON of it
    stable_changed,       \* the last operation changed stable_target
    calls_left,           \* update calls the ramp may still need for the target in use
    arrivals,             \* the most recent raw light readings, in arrival order
    last_mean,            \* <<sum, n>>: the mean the last record_light_reading returned
    \* ---- example.py: display intent, applied state, mode loop ----
    mode,                 \* global mode
    effect,               \* global effect
    am_pm_mode,           \* global am_pm_mode
    current_mode,         \* buttons_handler: current_mode
    current_effect,       \* buttons_handler: current_effect
    current_am_pm,        \* buttons_handler: current_am_pm
    last_change_time,     \* buttons_handler: last_change_time (None when unset)
    clock,                \* global clock: the renderer load_example started last
    clock_kwargs,         \* load_current_example: clock_kwargs (None while unbound)
    effect_index,         \* load_example: its effect_index argument
    pc,                   \* position of the buttons_handler task
    in_loop,              \* the task has entered its while loop
    wall,                 \* time.time(), whole seconds
    settings,             \* last record written to SETTINGS_FILE (NoRecord if none)
    lastFiredAge,         \* per button: ms since its handler last ran (None: never)
    \* ---- history of the mode loop and the buttons ----
    tick,                 \* the current control tick: what it detected and did
    last_write,           \* <<time.time(), last_change_time>> at the last settings write
    detections,           \* time.time() at each tick that detected a change, in order
    writes_since,         \* settings writes since the last such tick (saturating)
    edges_left,           \* raw button edges the environment may still produce
    edge,                 \* the last raw edge: its button, whether it was due, the value before
    window,               \* per button: raw edges and value at the start of its refractory window
    \* ---- history of the calls of export() ----
    exported,             \* the last two results of export(): 'level' and the mean it came from
    \* ---- the renderer tasks ----
    stale_running,        \* replaced clock objects whose is_running is still True
    frame_by,             \* which clock object drew the last frame
    \* ---- Brightness.run inside update(), interrupted by a button ----
    upc,                  \* position of the brightness loop inside update()
    loop_target,          \* update(): its local `target` (None outside update)
    pressed               \* a brightness button handler has run

bvars == <<brightness_mode, level, current_brightness, light_readings,
           stable_target, pending_target, pending_since, actuator, ticks>>
hvars == <<last_op, prev_current, op_start_current, op_start_level, writes, pend_elapsed, pend_all_close, stable_changed,
           calls_left, arrivals, last_mean>>
mvars == <<mode, effect, am_pm_mode, current_mode, current_effect, current_am_pm,
           last_change_time, clock, clock_kwargs, effect_index, pc, in_loop, wall,
           settings, lastFiredAge>>
gvars == <<tick, last_write, detections, writes_since, edges_left, edge, window>>
svars == <<exported>>
rvars == <<stale_running, frame_by>>
uvars == <<upc, loop_target, pressed>>
vars == <<bvars, hvars, mvars, gvars, svars, rvars, uvars>>

-----------------------------------------------------------------------------
(* Program constants of class Brightness *)

None == 0 - 1

MODE_AUTO == 0
MODE_MANUAL == 1

Scale == 72 * 100

MIN_LIGHT == 15
MAX_LIGHT == 21
MIN_BRIGHTNESS == (6 * Scale) \div 100
MAX_BRIGHTNESS == (31 * Scale) \div 100
LIGHT_SAMPLES == 5
TARGET_CHANGE_DELAY_MS == 1000
TARGET_EPSILON == (5 * Scale) \div 1000
step == (2 * Scale) \div 100

(* time.ticks_ms() wraps at TICKS_PERIOD (2^30 on the device); the model   *)
(* keeps the wrap and scales the period to TicksPeriodQuanta quanta.       *)
TickQuantum == 500
TicksPeriodQuanta == 8
TICKS_PERIOD == TicksPeriodQuanta * TickQuantum

(* Bounds of the environment *)
MaxGap == 2
LowLight == 17
LightSpread == 1
LightValues == {LowLight, LowLight + LightSpread}
\* readings below, at, between, at and above the calibration points
DarkLight == 10
BrightLight == 25
TargetLights == {DarkLight, MIN_LIGHT, MIN_LIGHT + 2, MAX_LIGHT, BrightLight}
\* arguments of the level operations: below, inside and above 0..100
LevelExcess == 5
ArgLevels == {0 - LevelExcess, 50, 100 + LevelExcess}
BigAdjust == 60
AdjustValues == {0 - BigAdjust, BigAdjust}
\* the light and the pace of the updates while the level operations are exercised
SteadyLights == {BrightLight}
SteadyGap == MaxGap * TickQuantum
ActuatorAtStart == {0, Scale}
InitialBrightness == {Scale \div 5}

\* the mode loop's clock and the buttons
BootTime == 1
MaxWall == 13
MaxEdges == 3
MaxRawEdges == 6
DebounceQuantum == 100
\* the restored mode: the last of the cycle, from which one press wraps to 0
RestoredModes == {3}
RestoredEffects == {0}
RestoredAmPm == {FALSE}
\* button edges after a restore of arbitrary stored integers
RestoreEdges == 1
\* button edges while the renderer tasks are followed
RenderEdges == 2
\* button edges after the startup from a well-formed settings file
StartupEdges == 1
\* button edges in the runs followed to their end
LiveEdges == 1

Max(a, b) == IF a >= b THEN a ELSE b
Min(a, b) == IF a <= b THEN a ELSE b
Abs(a) == IF a >= 0 THEN a ELSE 0 - a

RECURSIVE SeqSum(_)
SeqSum(s) == IF s = <<>> THEN 0 ELSE Head(s) + SeqSum(Tail(s))

-----------------------------------------------------------------------------
(* Pure methods of Brightness *)

\* mutant: level / 100 without the clamp
get_corrected_level_unclamped(lv) == (lv * Scale) \div 100

\* get_corrected_level: max(0, min(1, level / 100))
get_corrected_level(lv) == Max(0, Min(Scale, (lv * Scale) \div 100))

\* mutant: evicts the newest entry instead of the oldest
record_light_reading_pop_last(readings, light_value) ==
    LET appended == Append(readings, light_value)
    IN  IF Len(appended) > LIGHT_SAMPLES
        THEN SubSeq(appended, 1, LIGHT_SAMPLES) ELSE appended

\* record_light_reading: the list after append and eviction
record_light_reading(readings, light_value) ==
    LET appended == Append(readings, light_value)
    IN  IF Len(appended) > LIGHT_SAMPLES THEN Tail(appended) ELSE appended

\* the value record_light_reading returns, sum(l)/len(l), as <<sum, len>>
light_mean(readings) == <<SeqSum(readings), Len(readings)>>

\* mutant: interpolates below MIN_LIGHT as well
auto_target_no_floor(sum, n) ==
    LET target ==
            IF sum >= MAX_LIGHT * n THEN MAX_BRIGHTNESS
            ELSE MIN_BRIGHTNESS +
                 ((sum - MIN_LIGHT * n) * (MAX_BRIGHTNESS - MIN_BRIGHTNESS))
                     \div ((MAX_LIGHT - MIN_LIGHT) * n)
    IN  Max(0, Min(Scale, target))

\* get_target_brightness in auto mode, for the mean sum/n
auto_target(sum, n) ==
    LET target ==
            IF sum <= MIN_LIGHT * n THEN MIN_BRIGHTNESS
            ELSE IF sum >= MAX_LIGHT * n THEN MAX_BRIGHTNESS
            ELSE MIN_BRIGHTNESS +
                 ((sum - MIN_LIGHT * n) * (MAX_BRIGHTNESS - MIN_BRIGHTNESS))
                     \div ((MAX_LIGHT - MIN_LIGHT) * n)
    IN  Max(0, Min(Scale, target))

\* _is_target_close
is_target_close(target_a, target_b) == Abs(target_a - target_b) < TARGET_EPSILON

\* time.ticks_diff(a, b) on the wrapping tick counter
ticks_diff(a, b) ==
    ((a - b + TICKS_PERIOD \div 2) % TICKS_PERIOD) - TICKS_PERIOD \div 2

\* Python truthiness of pending_since: None and 0 are false
truthy(x) == x # None /\ x # 0

\* mutant: promotes a matching pending target without waiting for the delay
hysteresis_no_dwell(target, st, pt, ps, now) ==
    IF is_target_close(target, st)
    THEN [stable_target |-> st, pending_target |-> None, pending_since |-> None]
    ELSE IF pt = None \/ ~is_target_close(target, pt)
    THEN [stable_target |-> st, pending_target |-> target, pending_since |-> now]
    ELSE [stable_target |-> pt, pending_target |-> None, pending_since |-> None]

\* update, lines 94-104: the hysteresis of auto mode
hysteresis(target, st, pt, ps, now) ==
    IF is_target_close(target, st)
    THEN [stable_target |-> st, pending_target |-> None, pending_since |-> None]
    ELSE IF pt = None \/ ~is_target_close(target, pt)
    THEN [stable_target |-> st, pending_target |-> target, pending_since |-> now]
    ELSE IF truthy(ps) /\ ticks_diff(now, ps) >= TARGET_CHANGE_DELAY_MS
    THEN [stable_target |-> pt, pending_target |-> None, pending_since |-> None]
    ELSE [stable_target |-> st, pending_target |-> pt, pending_since |-> ps]

\* mutant: steps without clipping at the target
ramp_no_clip(current, target) ==
    IF target > current THEN current + step
    ELSE IF target < current THEN current - step ELSE current

\* mutant: jumps straight to the target
ramp_jump(current, target) == target

\* update, lines 113-117: the smoothing ramp
ramp(current, target) ==
    IF target > current
    THEN Min(target, current + step)
    ELSE Max(target, current - step)

-----------------------------------------------------------------------------
(* History bookkeeping shared by the Brightness operations *)

\* the last HistLen raw readings in arrival order
HistLen == LIGHT_SAMPLES + 1
Arrive(hist, light_value) ==
    LET appended == Append(hist, light_value)
    IN  IF Len(appended) > HistLen THEN Tail(appended) ELSE appended

\* the last k entries of a sequence
LastN(s, k) == SubSeq(s, Len(s) - k + 1, Len(s))

Gaps == {g * TickQuantum : g \in 0..MaxGap}

\* ceil(|target - current| / step): the calls the ramp needs from current to target
StepsLeft(current, target) == (Abs(target - current) + step - 1) \div step

-----------------------------------------------------------------------------
(* The Brightness object as a record, and its methods as functions on it   *)

Self ==
    [mode |-> brightness_mode, level |-> level,
     current_brightness |-> current_brightness,
     light_readings |-> light_readings, stable_target |-> stable_target,
     pending_target |-> pending_target, pending_since |-> pending_since,
     actuator |-> actuator, ticks |-> ticks]

\* Brightness.__init__(galactic, level, mode): b is galactic.get_brightness(),
\* light_value the reading get_target_brightness records in auto mode
construct(lv, md, b, light_value) ==
    LET readings == IF md = MODE_MANUAL THEN <<>>
                    ELSE record_light_reading(<<>>, light_value)
        mean == light_mean(readings)
    IN  [mode |-> md, level |-> lv, current_brightness |-> b,
         light_readings |-> readings,
         stable_target |-> IF md = MODE_MANUAL THEN get_corrected_level(lv)
                           ELSE auto_target(mean[1], mean[2]),
         pending_target |-> None, pending_since |-> None,
         actuator |-> b, ticks |-> 0]

\* Brightness.update() at tick `now`, galactic.light() returning light_value
update(self, light_value, now) ==
    LET auto == self.mode = MODE_AUTO
        readings == IF auto
                    THEN record_light_reading(self.light_readings, light_value)
                    ELSE self.light_readings
        mean == light_mean(readings)
        target == IF auto THEN auto_target(mean[1], mean[2])
                  ELSE get_corrected_level(self.level)
        h == IF auto
             THEN hysteresis(target, self.stable_target, self.pending_target,
                             self.pending_since, now)
             ELSE [stable_target |-> target, pending_target |-> None,
                   pending_since |-> None]
        new_current == ramp(self.current_brightness, h.stable_target)
    IN  [self EXCEPT !.light_readings = readings,
                     !.stable_target = h.stable_target,
                     !.pending_target = h.pending_target,
                     !.pending_since = h.pending_since,
                     !.current_brightness = new_current,
                     !.actuator = new_current,
                     !.ticks = IF auto THEN now ELSE self.ticks]

\* mutant: adjusts in auto mode as well
adjust_in_auto(self, value) ==
    LET lv == Max(0, Min(100, self.level + value))
    IN  [self EXCEPT !.level = lv,
                     !.current_brightness = get_corrected_level(lv),
                     !.actuator = get_corrected_level(lv)]

\* mutant: changes the level and leaves the actuator to update()
adjust_level_only(self, value) ==
    IF self.mode = MODE_AUTO
    THEN self
    ELSE [self EXCEPT !.level = Max(0, Min(100, self.level + value))]

\* Brightness.adjust(value)
adjust(self, value) ==
    IF self.mode = MODE_AUTO
    THEN self
    ELSE LET lv == Max(0, Min(100, self.level + value))
         IN  [self EXCEPT !.level = lv,
                          !.current_brightness = get_corrected_level(lv),
                          !.actuator = get_corrected_level(lv)]

\* the values adjust(value) hands to galactic.set_brightness
adjust_writes(self, value) ==
    IF self.mode = MODE_AUTO THEN <<>> ELSE <<adjust(self, value).actuator>>

\* Brightness.toggle_mode() / set_mode()
toggle_mode(self) ==
    [self EXCEPT !.mode = IF self.mode = MODE_AUTO THEN MODE_MANUAL ELSE MODE_AUTO]

-----------------------------------------------------------------------------
(* Actions on the Brightness object *)

SetSelf(new) ==
    /\ brightness_mode' = new.mode
    /\ level' = new.level
    /\ current_brightness' = new.current_brightness
    /\ light_readings' = new.light_readings
    /\ stable_target' = new.stable_target
    /\ pending_target' = new.pending_target
    /\ pending_since' = new.pending_since
    /\ actuator' = new.actuator
    /\ ticks' = new.ticks

InitSelf(new) ==
    /\ brightness_mode = new.mode
    /\ level = new.level
    /\ current_brightness = new.current_brightness
    /\ light_readings = new.light_readings
    /\ stable_target = new.stable_target
    /\ pending_target = new.pending_target
    /\ pending_since = new.pending_since
    /\ actuator = new.actuator
    /\ ticks = new.ticks
    /\ last_op = "init"
    /\ prev_current = new.current_brightness
    /\ op_start_current = new.current_brightness
    /\ op_start_level = new.level
    /\ writes = <<>>
    /\ pend_elapsed = 0
    /\ pend_all_close = TRUE
    /\ stable_changed = FALSE
    /\ calls_left = StepsLeft(new.current_brightness, new.stable_target)
    /\ arrivals = new.light_readings
    /\ last_mean = light_mean(new.light_readings)
    /\ exported = <<>>
    /\ upc = "idle"
    /\ loop_target = None
    /\ pressed = FALSE

(* An operation `name` that ends in a call of update(), as far as the     *)
(* object and its history go (UpdateCall), and as a whole step            *)
(* (RunUpdate): `pre` is the                                               *)
(* object when update() is entered (Self for a bare update, the result of  *)
(* adjust for a button handler), pre_writes the actuator writes made       *)
(* before it, gap the real time since the previous update call.            *)
UpdateCall(name, pre, pre_writes, light_value, gap) ==
    LET now == (ticks + gap) % TICKS_PERIOD
        post == update(pre, light_value, now)
        auto == pre.mode = MODE_AUTO
        assigned == \/ post.pending_target = None
                    \/ post.pending_target # pre.pending_target
        cand == auto_target(light_mean(post.light_readings)[1],
                            light_mean(post.light_readings)[2])
    IN  /\ SetSelf(post)
        /\ last_op' = name
        /\ prev_current' = pre.current_brightness
        /\ op_start_current' = current_brightness
        /\ op_start_level' = level
        /\ writes' = Append(pre_writes, post.actuator)
        /\ pend_elapsed' = IF assigned THEN 0
                           ELSE Min(TARGET_CHANGE_DELAY_MS, pend_elapsed + gap)
        /\ pend_all_close' =
              IF assigned THEN TRUE
              ELSE pend_all_close /\ is_target_close(cand, pre.pending_target)
        /\ stable_changed' = (post.stable_target # pre.stable_target)
        /\ calls_left' =
              IF post.stable_target # pre.stable_target
                 \/ pre.current_brightness # current_brightness
              THEN Max(0, StepsLeft(pre.current_brightness, post.stable_target) - 1)
              ELSE Max(0, calls_left - 1)
        /\ arrivals' = IF auto THEN Arrive(arrivals, light_value) ELSE arrivals
        /\ last_mean' = IF auto THEN light_mean(post.light_readings) ELSE last_mean

RunUpdate(name, pre, pre_writes, light_value, gap) ==
    /\ UpdateCall(name, pre, pre_writes, light_value, gap)
    /\ UNCHANGED <<mvars, gvars, svars, rvars, uvars>>

\* Brightness.run, one iteration: update()
Update ==
    \E light_value \in LightValues, gap \in Gaps :
        RunUpdate("update", Self, <<>>, light_value, gap)

\* example.py brightness_up: brightness.adjust(5); brightness.update()
brightness_up ==
    \E light_value \in LightValues, gap \in Gaps :
        RunUpdate("brightness_up", adjust(Self, 5), adjust_writes(Self, 5),
                  light_value, gap)

\* example.py brightness_down: brightness.adjust(-5); brightness.update()
brightness_down ==
    \E light_value \in LightValues, gap \in Gaps :
        RunUpdate("brightness_down", adjust(Self, 0 - 5), adjust_writes(Self, 0 - 5),
                  light_value, gap)


\* Brightness.set_mode(mode)
set_mode(self, md) == [self EXCEPT !.mode = md]

\* Brightness.set_level(level)
set_level(self, lv) == [self EXCEPT !.level = lv]

(* An operation that is not update(): the object becomes `new`.  The       *)
(* history of the ramp restarts from the object it leaves.                 *)
RunCall(name, new, new_writes) ==
    /\ SetSelf(new)
    /\ last_op' = name
    /\ op_start_current' = current_brightness
    /\ op_start_level' = level
    /\ writes' = new_writes
    /\ prev_current' = new.current_brightness
    /\ calls_left' = StepsLeft(new.current_brightness, new.stable_target)
    /\ stable_changed' = FALSE
    /\ UNCHANGED <<pend_elapsed, pend_all_close, arrivals, last_mean>>
    /\ UNCHANGED <<mvars, gvars, svars, rvars, uvars>>

\* Brightness.toggle_mode()
ToggleMode == RunCall("toggle_mode", toggle_mode(Self), <<>>)

SetMode == \E md \in {MODE_AUTO, MODE_MANUAL} : RunCall("set_mode", set_mode(Self, md), <<>>)

SetLevel == \E lv \in ArgLevels : RunCall("set_level", set_level(Self, lv), <<>>)

Adjust ==
    \E value \in AdjustValues :
        RunCall("adjust", adjust(Self, value), adjust_writes(Self, value))

\* update() under a steady light
UpdateSteady ==
    \E light_value \in SteadyLights :
        RunUpdate("update", Self, <<>>, light_value, SteadyGap)

(* update() of the brightness loop in manual mode, statement by statement, *)
(* so that a button handler (a soft interrupt, run between bytecodes) can  *)
(* come in between.                                                        *)
LoopStep(name, new, new_writes, next_upc, new_target) ==
    /\ brightness_mode = MODE_MANUAL
    /\ SetSelf(new)
    /\ last_op' = name
    /\ writes' = new_writes
    /\ upc' = next_upc
    /\ loop_target' = new_target
    /\ UNCHANGED <<prev_current, op_start_current, op_start_level, pend_elapsed,
                   pend_all_close, stable_changed, calls_left, arrivals, last_mean,
                   pressed>>
    /\ UNCHANGED <<mvars, gvars, svars, rvars>>

\* line 90: target = self.get_target_brightness()
LoopReadTarget ==
    /\ upc = "idle"
    /\ LoopStep("loop_update", Self, <<>>, "commit", get_corrected_level(level))

\* lines 107-110: stable_target = target, pending cleared
LoopCommit ==
    /\ upc = "commit"
    /\ LoopStep("loop_update",
                [Self EXCEPT !.stable_target = loop_target,
                             !.pending_target = None, !.pending_since = None],
                <<>>, "ramp", loop_target)

\* lines 113-117: current_brightness moves toward the local target
LoopRamp ==
    /\ upc = "ramp"
    /\ LoopStep("loop_update",
                [Self EXCEPT !.current_brightness = ramp(current_brightness, loop_target)],
                <<>>, "write", loop_target)

\* lines 119-121: galactic.set_brightness(self.current_brightness)
LoopWrite ==
    /\ upc = "write"
    /\ LoopStep("loop_update", [Self EXCEPT !.actuator = current_brightness],
                <<current_brightness>>, "idle", None)

(* A brightness button handler run to its end, wherever the loop is:       *)
(* adjust(value) then update().                                            *)
irq_brightness(name, value, light_value) ==
    /\ brightness_mode = MODE_MANUAL
    /\ UpdateCall(name, adjust(Self, value), adjust_writes(Self, value),
                  light_value, 0)
    /\ pressed' = TRUE
    /\ UNCHANGED <<upc, loop_target>>
    /\ UNCHANGED <<mvars, gvars, svars, rvars>>

irq_brightness_up ==
    \E light_value \in LightValues :
        irq_brightness("brightness_up", 5, light_value)

irq_brightness_down ==
    \E light_value \in LightValues :
        irq_brightness("brightness_down", 0 - 5, light_value)

\* the last two entries of a sequence
LastTwo(q) == IF Len(q) > 2 THEN Tail(q) ELSE q

(* Brightness.export(): in auto mode its 'level' is get_target_brightness() *)
(* (which records a light reading), in manual mode the level itself.       *)
Export ==
    \E light_value \in TargetLights :
        LET auto == brightness_mode = MODE_AUTO
            readings == IF auto THEN record_light_reading(light_readings, light_value)
                        ELSE light_readings
            mean == light_mean(readings)
        IN  /\ light_readings' = readings
            /\ exported' =
                  IF auto
                  THEN LastTwo(Append(exported,
                          [sum |-> mean[1], n |-> mean[2],
                           level |-> auto_target(mean[1], mean[2])]))
                  ELSE exported
            /\ arrivals' = IF auto THEN Arrive(arrivals, light_value) ELSE arrivals
            /\ last_mean' = IF auto THEN mean ELSE last_mean
            /\ last_op' = "export"
            /\ op_start_current' = current_brightness
            /\ op_start_level' = level
            /\ writes' = <<>>
            /\ UNCHANGED <<brightness_mode, level, current_brightness, stable_target,
                           pending_target, pending_since, actuator, ticks>>
            /\ UNCHANGED <<prev_current, pend_elapsed, pend_all_close, stable_changed,
                           calls_left>>
            /\ UNCHANGED <<mvars, gvars, rvars, uvars>>

-----------------------------------------------------------------------------
(* example.py: the debounced buttons                                       *)

\* effects, example.py lines 164-169
effects == <<"SimpleClock", "RainbowCharEffectClock", "RainbowPixelEffectClock",
             "RainbowMoveEffectClock">>

ModeCount == 4

Buttons == {"switch_mode", "switch_effect", "toggle_am_pm"}

(* DebounceGate (unicornclock.utils.debounce, not in src/): an edge fires   *)
(* when no edge fired before or at least refractoryMs have passed since    *)
(* the last one that fired; otherwise it is dropped.  The record keeps     *)
(* now - lastFiredAt, saturating at refractoryMs.                          *)
refractoryMs == 200

shouldFire(age) == age = None \/ age >= refractoryMs

Aged(ages, ms) ==
    [b \in Buttons |-> IF ages[b] = None THEN None ELSE Min(refractoryMs, ages[b] + ms)]

\* mutant: advances the mode by two
switch_mode_twice(m) == (m + 2) % ModeCount

\* switch_mode: mode = (mode + 1) % 4
switch_mode(m) == (m + 1) % ModeCount

\* switch_effect: effect = (effect + 1) % len(effects)
switch_effect(e) == (e + 1) % Len(effects)

\* toggle_am_pm: am_pm_mode = not am_pm_mode
toggle_am_pm(a) == ~a

\* the global a button's handler writes
Value(b) == CASE b = "switch_mode" -> mode
              [] b = "switch_effect" -> effect
              [] OTHER -> am_pm_mode

(* A falling edge on button b reaches its debounced handler.  `track`      *)
(* says whether the history of edges and windows is kept.                  *)
RawEdge(b, track) ==
    /\ pc # "example"
    /\ edges_left > 0
    /\ edges_left' = edges_left - 1
    /\ IF shouldFire(lastFiredAge[b])
       THEN /\ lastFiredAge' = [lastFiredAge EXCEPT ![b] = 0]
            /\ mode' = IF b = "switch_mode" THEN switch_mode(mode) ELSE mode
            /\ effect' = IF b = "switch_effect" THEN switch_effect(effect) ELSE effect
            /\ am_pm_mode' = IF b = "toggle_am_pm" THEN toggle_am_pm(am_pm_mode)
                             ELSE am_pm_mode
            /\ window' = IF track
                         THEN [window EXCEPT ![b] = [edges |-> 1, start |-> Value(b)]]
                         ELSE window
       ELSE /\ UNCHANGED <<lastFiredAge, mode, effect, am_pm_mode>>
            /\ window' = IF track
                         THEN [window EXCEPT ![b].edges = Min(3, window[b].edges + 1)]
                         ELSE window
    /\ edge' = IF track
               THEN [button |-> b, due |-> shouldFire(lastFiredAge[b]),
                     before |-> Value(b)]
               ELSE edge
    /\ UNCHANGED <<current_mode, current_effect, current_am_pm, last_change_time,
                   clock, clock_kwargs, effect_index, pc, in_loop, wall, settings>>
    /\ UNCHANGED <<tick, last_write, detections, writes_since>>
    /\ UNCHANGED <<bvars, hvars, svars, rvars, uvars>>

-----------------------------------------------------------------------------
(* example.py: load_example, load_current_example and the mode loop         *)

NoClock == [kw |-> None, effect |-> None, am_pm |-> FALSE, is_running |-> FALSE]
NoRecord == [mode |-> None, effect |-> None, am_pm_mode |-> FALSE]
NoWrite == <<None, None>>

QUIET_PERIOD == 5
SleepMs == 250
\* whole seconds one sleep of the loop can add to time.time()
MaxTickSecs == (SleepMs + 999) \div 1000

ChainPcs == <<"chain0", "chain1", "chain2", "chain3">>

\* effects[effect_index] exists (Python accepts -len .. len-1)
ValidIndex(i) == i >= 0 - Len(effects) /\ i < Len(effects)

NewTick(detected) == [detected |-> detected, stops |-> 0, starts |-> 0]

LoopFrame == UNCHANGED <<mode, effect, am_pm_mode, lastFiredAge, edges_left, edge,
                         window, bvars, hvars, svars, uvars>>

\* lines 308-312: the applied state is initialised and the first load begins
Start ==
    /\ pc = "start"
    /\ current_effect' = 0
    /\ current_mode' = 0
    /\ current_am_pm' = am_pm_mode
    /\ tick' = NewTick(FALSE)
    /\ pc' = "chain0"
    /\ UNCHANGED <<last_change_time, clock, clock_kwargs, effect_index, in_loop, wall,
                   settings, last_write, detections, writes_since>>
    /\ LoopFrame /\ UNCHANGED rvars

\* lines 276-300: one test of the if / elif chain on the global mode
Chain(k) ==
    /\ pc = ChainPcs[k + 1]
    /\ IF mode = k
       THEN /\ clock_kwargs' = k
            /\ pc' = "call"
       ELSE /\ UNCHANGED clock_kwargs
            /\ pc' = IF k + 1 < ModeCount THEN ChainPcs[k + 2] ELSE "crashed"
    /\ UNCHANGED <<current_mode, current_effect, current_am_pm, last_change_time, clock,
                   effect_index, in_loop, wall, settings, tick, last_write,
                   detections, writes_since>>
    /\ LoopFrame /\ UNCHANGED rvars

\* line 302: the arguments of load_example are evaluated
Call ==
    /\ pc = "call"
    /\ effect_index' = effect
    /\ pc' = "stop"
    /\ UNCHANGED <<current_mode, current_effect, current_am_pm, last_change_time, clock,
                   clock_kwargs, in_loop, wall, settings, tick, last_write,
                   detections, writes_since>>
    /\ LoopFrame /\ UNCHANGED rvars

\* mutant: load_example without the stop of the running clock
Stop_skipped ==
    /\ pc = "stop"
    /\ pc' = "construct"
    /\ UNCHANGED <<clock, tick, current_mode, current_effect, current_am_pm,
                   last_change_time, clock_kwargs, effect_index, in_loop, wall,
                   settings, last_write, detections, writes_since>>
    /\ LoopFrame /\ UNCHANGED rvars

\* load_example, lines 176-181: the running renderer is told to stop
Stop ==
    /\ pc = "stop"
    /\ IF clock # NoClock
       THEN /\ clock' = [clock EXCEPT !.is_running = FALSE]
            /\ tick' = [tick EXCEPT !.stops = tick.stops + 1]
       ELSE UNCHANGED <<clock, tick>>
    /\ pc' = "construct"
    /\ UNCHANGED <<current_mode, current_effect, current_am_pm, last_change_time,
                   clock_kwargs, effect_index, in_loop, wall, settings, last_write,
                   detections, writes_since>>
    /\ LoopFrame /\ UNCHANGED rvars

\* load_example, lines 183-198: the new renderer is built and its task created
Construct ==
    /\ pc = "construct"
    /\ IF ValidIndex(effect_index)
       THEN /\ clock' = [kw |-> clock_kwargs, effect |-> effect_index % Len(effects),
                         am_pm |-> am_pm_mode, is_running |-> TRUE]
            /\ tick' = [tick EXCEPT !.starts = tick.starts + 1]
            /\ pc' = "set_mode"
       ELSE /\ UNCHANGED <<clock, tick>>
            /\ pc' = "crashed"
    /\ stale_running' = IF ValidIndex(effect_index) /\ clock # NoClock /\ clock.is_running
                        THEN Min(2, stale_running + 1) ELSE stale_running
    /\ UNCHANGED <<current_mode, current_effect, current_am_pm, last_change_time,
                   clock_kwargs, effect_index, in_loop, wall, settings, last_write,
                   detections, writes_since, frame_by>>
    /\ LoopFrame

\* line 304
SetCurrentMode ==
    /\ pc = "set_mode"
    /\ current_mode' = mode
    /\ pc' = "set_effect"
    /\ UNCHANGED <<current_effect, current_am_pm, last_change_time, clock, clock_kwargs,
                   effect_index, in_loop, wall, settings, tick, last_write,
                   detections, writes_since>>
    /\ LoopFrame /\ UNCHANGED rvars

\* line 305
SetCurrentEffect ==
    /\ pc = "set_effect"
    /\ current_effect' = effect
    /\ pc' = "set_am_pm"
    /\ UNCHANGED <<current_mode, current_am_pm, last_change_time, clock, clock_kwargs,
                   effect_index, in_loop, wall, settings, tick, last_write,
                   detections, writes_since>>
    /\ LoopFrame /\ UNCHANGED rvars

\* line 306 and the return: to line 314 after the first load, to line 320 in the loop
SetCurrentAmPm ==
    /\ pc = "set_am_pm"
    /\ current_am_pm' = am_pm_mode
    /\ IF in_loop
       THEN /\ pc' = "stamp"
            /\ UNCHANGED <<last_change_time, in_loop>>
       ELSE /\ last_change_time' = None
            /\ in_loop' = TRUE
            /\ pc' = "cmp"
    /\ UNCHANGED <<current_mode, current_effect, clock, clock_kwargs, effect_index, wall,
                   settings, tick, last_write, detections, writes_since>>
    /\ LoopFrame /\ UNCHANGED rvars

\* lines 316-317: the tick's comparison of intent and applied state
Compare ==
    /\ pc = "cmp"
    /\ LET differs == \/ mode # current_mode
                      \/ effect # current_effect
                      \/ am_pm_mode # current_am_pm
       IN  /\ tick' = NewTick(differs)
           /\ pc' = IF differs THEN "chain0" ELSE "persist"
           /\ detections' = IF differs THEN Append(detections, wall) ELSE detections
           /\ writes_since' = IF differs THEN 0 ELSE writes_since
    /\ UNCHANGED <<current_mode, current_effect, current_am_pm, last_change_time, clock,
                   clock_kwargs, effect_index, in_loop, wall, settings, last_write>>
    /\ LoopFrame /\ UNCHANGED rvars

\* line 320
Stamp ==
    /\ pc = "stamp"
    /\ last_change_time' = wall
    /\ pc' = "persist"
    /\ UNCHANGED <<current_mode, current_effect, current_am_pm, clock, clock_kwargs,
                   effect_index, in_loop, wall, settings, tick, last_write,
                   detections, writes_since>>
    /\ LoopFrame /\ UNCHANGED rvars

\* mutant: the test without `last_change_time and`
persist_due_unset(timer, now) == timer + QUIET_PERIOD < now

\* mutant: writes as soon as the quiet period has gone by (>= instead of >)
persist_due_at_five(timer, now) == truthy(timer) /\ timer + QUIET_PERIOD <= now

\* line 322: last_change_time and last_change_time + 5 < time.time()
persist_due(timer, now) == truthy(timer) /\ timer + QUIET_PERIOD < now

\* lines 322-331
Persist ==
    /\ pc = "persist"
    /\ IF persist_due(last_change_time, wall)
       THEN /\ settings' = [mode |-> mode, effect |-> effect, am_pm_mode |-> am_pm_mode]
            /\ last_change_time' = None
            /\ last_write' = <<wall, last_change_time>>
            /\ writes_since' = Min(2, writes_since + 1)
       ELSE UNCHANGED <<settings, last_change_time, last_write, writes_since>>
    /\ pc' = "sleep"
    /\ UNCHANGED <<current_mode, current_effect, current_am_pm, clock, clock_kwargs,
                   effect_index, in_loop, wall, tick, detections>>
    /\ LoopFrame /\ UNCHANGED rvars

\* line 333: asyncio.sleep(0.25); time.time() has moved on by secs whole seconds
Sleep ==
    /\ pc = "sleep"
    /\ \E secs \in 0..MaxTickSecs :
          /\ wall + secs <= MaxWall
          /\ wall' = wall + secs
    /\ lastFiredAge' = Aged(lastFiredAge, SleepMs)
    /\ pc' = "cmp"
    /\ UNCHANGED <<mode, effect, am_pm_mode, current_mode, current_effect, current_am_pm,
                   last_change_time, clock, clock_kwargs, effect_index, in_loop,
                   settings>>
    /\ UNCHANGED <<gvars, bvars, hvars, svars, rvars, uvars>>

(* example(), line 351: load_example(0, callback_hour_change=...) while     *)
(* clock is None: nothing to stop, effects[0] built with the default x and  *)
(* the calendar callback (the arguments of mode 0) and its task created.    *)
(* The tasks created at lines 347-348 first run when example() yields.      *)
ExampleLoad ==
    /\ pc = "example"
    /\ clock' = [kw |-> 0, effect |-> 0, am_pm |-> am_pm_mode, is_running |-> TRUE]
    /\ stale_running' = IF clock # NoClock /\ clock.is_running
                        THEN Min(2, stale_running + 1) ELSE stale_running
    /\ pc' = "start"
    /\ UNCHANGED <<current_mode, current_effect, current_am_pm, last_change_time,
                   clock_kwargs, effect_index, in_loop, wall, settings, tick,
                   last_write, detections, writes_since, frame_by>>
    /\ LoopFrame

(* A renderer task draws a frame.  Clock.run (unicornclock, not in src/)    *)
(* checks its clock's is_running flag before each frame: the clock the      *)
(* global refers to ("current") or one that was replaced ("stale").         *)
Frame ==
    /\ \E by \in {"current", "stale"} :
          /\ IF by = "current" THEN clock # NoClock /\ clock.is_running
             ELSE stale_running > 0
          /\ frame_by' = by
    /\ UNCHANGED <<mvars, gvars, bvars, hvars, svars, uvars, stale_running>>

\* time passes while nothing else runs (the debounce windows only)
Elapse ==
    /\ lastFiredAge' = Aged(lastFiredAge, DebounceQuantum)
    /\ window' = [b \in Buttons |->
                    IF shouldFire(Aged(lastFiredAge, DebounceQuantum)[b])
                    THEN [edges |-> 0, start |-> Value(b)] ELSE window[b]]
    /\ \E b \in Buttons : lastFiredAge[b] # None /\ lastFiredAge[b] < refractoryMs
    /\ UNCHANGED <<mode, effect, am_pm_mode, current_mode, current_effect, current_am_pm,
                   last_change_time, clock, clock_kwargs, effect_index, pc, in_loop, wall,
                   settings>>
    /\ UNCHANGED <<tick, last_write, detections, writes_since, edges_left, edge>>
    /\ UNCHANGED <<bvars, hvars, svars, rvars, uvars>>

-----------------------------------------------------------------------------
(* Initial states *)

\* the Brightness object, untouched, in the specifications of example.py
BrightnessAtRest == InitSelf(construct(50, MODE_AUTO, Scale \div 2, LowLight))

\* the module state of example.py for the restored settings (m, e, a), with
\* global clock c and the startup at position p
ModeBoot(m, e, a, budget, c, p) ==
    /\ mode = m
    /\ effect = e
    /\ am_pm_mode = a
    /\ current_mode = 0
    /\ current_effect = 0
    /\ current_am_pm = FALSE
    /\ last_change_time = None
    /\ clock = c
    /\ clock_kwargs = None
    /\ effect_index = 0
    /\ pc = p
    /\ in_loop = FALSE
    /\ wall = BootTime
    /\ settings = NoRecord
    /\ lastFiredAge = [b \in Buttons |-> None]
    /\ tick = NewTick(FALSE)
    /\ last_write = NoWrite
    /\ detections = <<>>
    /\ writes_since = 0
    /\ edges_left = budget
    /\ edge = [button |-> "switch_mode", due |-> FALSE, before |-> m]
    /\ window = [b \in Buttons |->
                   [edges |-> 0,
                    start |-> CASE b = "switch_mode" -> m
                                [] b = "switch_effect" -> e
                                [] OTHER -> a]]
    /\ stale_running = 0
    /\ frame_by = "none"

\* the state after example() has run load_example(0, ...) and created the
\* buttons_handler task
ModeLoaded(m, e, a, budget) ==
    ModeBoot(m, e, a, budget,
             [kw |-> 0, effect |-> 0, am_pm |-> a, is_running |-> TRUE], "start")

ModeAtRest == ModeLoaded(0, 0, FALSE, 0)

-----------------------------------------------------------------------------
(* Specifications *)

\* Brightness(galactic) as example.py builds it (auto mode), and
\* Brightness(galactic, mode=MODE_MANUAL)
InitBrightness ==
    /\ \E md \in {MODE_AUTO, MODE_MANUAL}, light_value \in LightValues,
          b \in InitialBrightness :
           InitSelf(construct(50, md, b, light_value))
    /\ ModeAtRest

\* the brightness loop's update() and the two debounced brightness buttons
NextBrightness == Update \/ brightness_up \/ brightness_down

SpecBrightness == InitBrightness /\ [][NextBrightness]_vars

\* Brightness(galactic) in auto mode, asked for its target again and again
InitTarget ==
    /\ \E light_value \in TargetLights, b \in InitialBrightness :
           InitSelf(construct(50, MODE_AUTO, b, light_value))
    /\ ModeAtRest

SpecTarget == InitTarget /\ [][Export]_vars

\* Brightness(galactic, level, mode) with any level argument, and every
\* operation of the object called in any order
InitLevel ==
    /\ \E lv \in ArgLevels, md \in {MODE_AUTO, MODE_MANUAL},
          light_value \in SteadyLights, b \in ActuatorAtStart :
           InitSelf(construct(lv, md, b, light_value))
    /\ ModeAtRest

NextLevel == UpdateSteady \/ Adjust \/ SetLevel \/ SetMode \/ ToggleMode

SpecLevel == InitLevel /\ [][NextLevel]_vars

\* Brightness(galactic, mode=MODE_MANUAL) settled at its level, the loop's
\* update() and the brightness buttons interleaved
InitRace ==
    /\ InitSelf(construct(50, MODE_MANUAL, get_corrected_level(50), LowLight))
    /\ ModeAtRest

NextRace ==
    \/ LoopReadTarget \/ LoopCommit \/ LoopRamp \/ LoopWrite
    \/ irq_brightness_up \/ irq_brightness_down

SpecRace == InitRace /\ [][NextRace]_vars

\* the buttons alone, with time passing in steps of DebounceQuantum
InitDebounce ==
    /\ BrightnessAtRest
    /\ \E m \in RestoredModes, e \in RestoredEffects, a \in BOOLEAN :
          ModeLoaded(m, e, a, MaxRawEdges)

NextDebounce == Elapse \/ \E b \in Buttons : RawEdge(b, TRUE)

SpecDebounce == InitDebounce /\ [][NextDebounce]_vars

\* the buttons_handler task and the buttons
InitMode ==
    /\ BrightnessAtRest
    /\ \E m \in RestoredModes, e \in RestoredEffects, a \in RestoredAmPm :
          ModeLoaded(m, e, a, MaxEdges)

ModeLoop ==
    \/ Start
    \/ \E k \in 0..(ModeCount - 1) : Chain(k)
    \/ Call
    \/ Stop
    \/ Construct
    \/ SetCurrentMode
    \/ SetCurrentEffect
    \/ SetCurrentAmPm
    \/ Compare
    \/ Stamp
    \/ Persist
    \/ Sleep

NextMode == ModeLoop \/ \E b \in Buttons : RawEdge(b, FALSE)

SpecMode == InitMode /\ [][NextMode]_vars

\* example() from its first line, the renderer tasks drawing frames
InitRender ==
    /\ BrightnessAtRest
    /\ \E m \in RestoredModes, e \in RestoredEffects, a \in RestoredAmPm :
          ModeBoot(m, e, a, RenderEdges, NoClock, "example")

NextRender == ExampleLoad \/ NextMode \/ Frame

SpecRender == InitRender /\ [][NextRender]_vars

\* the task and the buttons, started from every well-formed settings record
\* (a missing or unparsable file gives 0, 0, False)
InitStartup ==
    /\ BrightnessAtRest
    /\ \E m \in 0..(ModeCount - 1), e \in 0..(Len(effects) - 1), a \in BOOLEAN :
          ModeLoaded(m, e, a, StartupEdges)

SpecStartup == InitStartup /\ [][NextMode]_vars

(* The task and the buttons followed to the end of the run.  Edges arrive  *)
(* early enough for a quiet period to fit before MaxWall.  Fairness: the   *)
(* buttons_handler task is scheduled whenever it can run (asyncio runs     *)
(* every ready task), and time.time() keeps advancing over the sleeps.     *)
EarlyEdge(b) ==
    /\ wall + QUIET_PERIOD + 2 <= MaxWall
    /\ RawEdge(b, FALSE)

TimePasses == Sleep /\ wall' > wall

InitLive ==
    /\ BrightnessAtRest
    /\ \E m \in RestoredModes, e \in RestoredEffects, a \in RestoredAmPm :
          ModeLoaded(m, e, a, LiveEdges)

NextLive == ModeLoop \/ \E b \in Buttons : EarlyEdge(b)

SpecLive ==
    /\ InitLive
    /\ [][NextLive]_vars
    /\ WF_vars(ModeLoop)
    /\ SF_vars(TimePasses)

\* integers a settings file may hold under 'mode' and 'effect': d.get() takes
\* them as they are
StoredModes == {ModeCount - 1, ModeCount}
StoredEffects == {0, 0 - 1, Len(effects)}

\* the same task and buttons, started from an arbitrary settings file
InitRestore ==
    /\ BrightnessAtRest
    /\ \E m \in StoredModes, e \in StoredEffects, a \in BOOLEAN :
          ModeLoaded(m, e, a, RestoreEdges)

SpecRestore == InitRestore /\ [][NextMode]_vars

-----------------------------------------------------------------------------
(* Claims about the Brightness object (SpecBrightness)                      *)

\* the candidate target the most recent auto-mode reading produced
Candidate == auto_target(light_mean(light_readings)[1], light_mean(light_readings)[2])

\* real time between the previous update call and the one of this step
StepGap == (ticks' - ticks) % TICKS_PERIOD

Between(lo, x, hi) == (lo <= x /\ x <= hi) \/ (hi <= x /\ x <= lo)

(* C1: in auto mode stable_target changes only in an update whose          *)
(* candidate is within TARGET_EPSILON of pending_target, at least          *)
(* TARGET_CHANGE_DELAY_MS of real time after pending_target was assigned,  *)
(* every candidate since then having been within TARGET_EPSILON of it, and *)
(* it changes to that pending_target; an update whose candidate is         *)
(* TARGET_EPSILON or more away from pending_target, or within              *)
(* TARGET_EPSILON of stable_target, leaves stable_target alone.            *)
C1_CommitOnlyAfterDwell ==
    [][ brightness_mode = MODE_AUTO =>
          /\ stable_target' # stable_target =>
                /\ pending_target # None
                /\ stable_target' = pending_target
                /\ is_target_close(Candidate', pending_target)
                /\ pend_all_close
                /\ pend_elapsed + StepGap >= TARGET_CHANGE_DELAY_MS
          /\ ( \/ pending_target = None
               \/ ~is_target_close(Candidate', pending_target)
               \/ is_target_close(Candidate', stable_target) )
                => stable_target' = stable_target ]_vars

\* an update has just promoted a pending target that differs from the old one
C1_Witness ==
    /\ last_op = "update"
    /\ pend_elapsed = 0
    /\ brightness_mode = MODE_AUTO
    /\ stable_changed
    /\ pending_target = None
    /\ stable_target = Candidate

(* C6: one update changes current_brightness by at most step and the new   *)
(* value lies between the old value and the target the call used,          *)
(* inclusive.                                                              *)
C6_RampBounded ==
    last_op # "init" =>
        /\ Abs(current_brightness - prev_current) <= step
        /\ Between(prev_current, current_brightness, stable_target)
        /\ actuator = current_brightness

\* an update moved current_brightness by a full step without reaching the target
C6_Witness ==
    /\ last_op = "update"
    /\ brightness_mode = MODE_AUTO
    /\ Abs(current_brightness - prev_current) = step
    /\ current_brightness # stable_target

(* C7: while the target in use does not move, current_brightness equals    *)
(* the target once ceil(|target - current| / step) update calls have been  *)
(* made, and stays equal to it.                                            *)
C7_RampConverges ==
    calls_left = 0 => current_brightness = stable_target

\* the last of several calls toward one target landed on it with a clipped step
C7_Witness ==
    /\ last_op = "update"
    /\ ~stable_changed
    /\ calls_left = 0
    /\ current_brightness = stable_target
    /\ prev_current # current_brightness
    /\ Abs(current_brightness - prev_current) < step

(* C8 as claimed: in manual mode a brightness-up press moves the value     *)
(* written to the actuator toward the new level in changes of at most      *)
(* step each (0.50, 0.52, 0.54, 0.55 for a level raised from 50 to 55).    *)
C8_PressRampsByStep ==
    (/\ brightness_mode = MODE_MANUAL
     /\ last_op = "brightness_up"
     /\ op_start_current = get_corrected_level(op_start_level)) =>
        /\ Abs(writes[1] - op_start_current) <= step
        /\ \A i \in 1..(Len(writes) - 1) : Abs(writes[i + 1] - writes[i]) <= step

(* C8 as amended: in manual mode a brightness button press writes the new  *)
(* level to the actuator at once: adjust sets current_brightness to        *)
(* clamp(level/100) in one change and the update() that follows leaves it  *)
(* there (0.50 -> 0.55 for a level raised from 50 to 55).                  *)
C8_PressJumpsToLevel ==
    (brightness_mode = MODE_MANUAL /\ last_op \in {"brightness_up", "brightness_down"}) =>
        /\ writes = <<get_corrected_level(level), get_corrected_level(level)>>
        /\ current_brightness = get_corrected_level(level)
        /\ actuator = get_corrected_level(level)
        /\ stable_target = get_corrected_level(level)

\* the level was raised from 50 to 55 and current_brightness went 0.50 -> 0.55
C8_Witness ==
    /\ brightness_mode = MODE_MANUAL
    /\ last_op = "brightness_up"
    /\ level = 55
    /\ op_start_level = 50
    /\ op_start_current = get_corrected_level(50)
    /\ current_brightness = get_corrected_level(55)
    /\ current_brightness - op_start_current > step

(* C9: after an auto-mode update that kept the pending candidate, less     *)
(* than TARGET_CHANGE_DELAY_MS have passed since the candidate became      *)
(* pending: at the first update at or past the delay the pending target    *)
(* is promoted and the pending fields cleared, whatever the tick counter   *)
(* read when the candidate became pending.                                 *)
C9_PromotedAtDelay ==
    (last_op # "init" /\ brightness_mode = MODE_AUTO /\ pending_target # None)
        => pend_elapsed < TARGET_CHANGE_DELAY_MS

\* the same statement for candidates that became pending at a nonzero tick
C9_PromotedAtDelayNonzeroTick ==
    (last_op # "init" /\ brightness_mode = MODE_AUTO /\ pending_target # None
        /\ pending_since # 0)
        => pend_elapsed < TARGET_CHANGE_DELAY_MS

(* C10: light_readings never holds more than LIGHT_SAMPLES entries, holds  *)
(* the last min(LIGHT_SAMPLES, count) readings in arrival order, and the   *)
(* mean record_light_reading returned is the mean of exactly those.        *)
C10_RollingWindow ==
    LET k == Min(LIGHT_SAMPLES, Len(arrivals))
        latest == LastN(arrivals, k)
    IN  /\ Len(light_readings) <= LIGHT_SAMPLES
        /\ light_readings = latest
        /\ last_mean = <<SeqSum(latest), k>>

\* a sixth reading has arrived and the oldest one, different from the rest, is gone
C10_Witness ==
    /\ Len(arrivals) = HistLen
    /\ Len(light_readings) = LIGHT_SAMPLES
    /\ arrivals[1] # arrivals[2]
    /\ light_readings[1] = arrivals[2]
    /\ light_readings[LIGHT_SAMPLES] = arrivals[HistLen]

-----------------------------------------------------------------------------
(* Claims about the buttons and the mode loop of example.py *)

(* C2: per button, every raw edge inside the refractory window opened by   *)
(* an accepted edge is dropped, so the handler has run exactly once since  *)
(* the window opened (mode, effect advanced by one, am_pm_mode flipped     *)
(* once), and every edge arriving when the window has passed runs the      *)
(* handler.                                                                *)
C2_OncePerWindow ==
    /\ window["switch_mode"].edges >= 1
          => mode = (window["switch_mode"].start + 1) % ModeCount
    /\ window["switch_effect"].edges >= 1
          => effect = (window["switch_effect"].start + 1) % Len(effects)
    /\ window["toggle_am_pm"].edges >= 1
          => am_pm_mode = ~window["toggle_am_pm"].start
    /\ (edge.button = "switch_mode")
          => mode = IF edge.due THEN (edge.before + 1) % ModeCount ELSE edge.before
    /\ (edge.button = "switch_effect")
          => effect = IF edge.due THEN (edge.before + 1) % Len(effects)
                      ELSE edge.before
    /\ (edge.button = "toggle_am_pm")
          => am_pm_mode = IF edge.due THEN ~edge.before ELSE edge.before

\* three mode-switch edges inside one window: the mode advanced by one
C2_Witness ==
    /\ window["switch_mode"].edges = 3
    /\ lastFiredAge["switch_mode"] < refractoryMs
    /\ edge.button = "switch_mode" /\ ~edge.due
    /\ mode = (window["switch_mode"].start + 1) % ModeCount

\* the tick has finished its reload step, or died in it
ReloadOver == in_loop /\ pc \in {"stamp", "persist", "sleep", "crashed"}

(* C3: in the loop, a tick that detected a difference between intent and   *)
(* applied state has stopped the old renderer once and then started a new  *)
(* one once when its reload step is over; a tick that detected none has    *)
(* stopped and started nothing.                                            *)
C3_OneStopOneStart ==
    in_loop =>
       /\ tick.starts <= tick.stops
       /\ tick.stops <= 1
       /\ ReloadOver =>
            IF tick.detected THEN tick.stops = 1 /\ tick.starts = 1
            ELSE tick.stops = 0 /\ tick.starts = 0

\* a detecting tick died at line 302 before stopping or starting anything
C3_CrashedInChain ==
    ReloadOver /\ pc = "crashed" /\ tick.detected /\ tick.stops = 0 /\ tick.starts = 0

Last(q) == q[Len(q)]

(* C4: a tick that detected a change leaves last_change_time at the        *)
(* current time; once more than the quiet period has passed since the last *)
(* detected change exactly one write has happened since it; no write       *)
(* happens less than 5 s after the last detected change.                   *)
C4_TimerResetOneWrite ==
    /\ (ReloadOver /\ pc # "stamp" /\ tick.detected) => last_change_time = wall
    /\ writes_since <= 1
    /\ (in_loop /\ pc = "sleep" /\ detections # <<>>
           /\ wall - Last(detections) > QUIET_PERIOD) => writes_since = 1
    /\ (last_write # NoWrite) => last_write[1] - last_write[2] >= QUIET_PERIOD

\* the same, for the ticks that come through load_current_example alive
C4_TimerResetOneWriteUnlessCrashed ==
    pc # "crashed" => C4_TimerResetOneWrite

(* C5 (as stated): a tick ends with the timer still set only if fewer than *)
(* 5 s have passed since it was set (the write is at the first tick with   *)
(* now - timer >= 5), and no write happens earlier than that.              *)
C5_WriteAtFive ==
    /\ (in_loop /\ pc = "sleep" /\ last_change_time # None)
          => wall - last_change_time < QUIET_PERIOD
    /\ (last_write # NoWrite) => last_write[1] - last_write[2] >= QUIET_PERIOD

(* C5 (amended): the write happens at the first tick at which more than    *)
(* 5 s have passed since the timer was set: no write at 5 s or less, and   *)
(* a tick ends with the timer still set only if at most 5 s have passed.   *)
C5_WriteAfterFive ==
    /\ (in_loop /\ pc = "sleep" /\ last_change_time # None)
          => wall - last_change_time <= QUIET_PERIOD
    /\ (last_write # NoWrite) => last_write[1] - last_write[2] > QUIET_PERIOD

\* changes detected at t, t + 2 and t + 6, written once, at t + 12
C5_Witness ==
    /\ detections = <<BootTime, BootTime + 2, BootTime + 6>>
    /\ last_write = <<BootTime + 12, BootTime + 6>>
    /\ writes_since = 1
    /\ last_change_time = None
    /\ settings = [mode |-> mode, effect |-> effect, am_pm_mode |-> am_pm_mode]

-----------------------------------------------------------------------------
(* Claims about the target computation *)

\* the mean sum_a / n_a is at most the mean sum_b / n_b
MeanLeq(a, b) == a.sum * b.n <= b.sum * a.n

(* C11: in auto mode the target is exactly MIN_BRIGHTNESS for a mean <=     *)
(* MIN_LIGHT, exactly MAX_BRIGHTNESS for a mean >= MAX_LIGHT, always in     *)
(* [MIN_BRIGHTNESS, MAX_BRIGHTNESS], and non-decreasing in the mean.        *)
C11_TargetClampedMonotone ==
    /\ \A i \in 1..Len(exported) :
          LET e == exported[i]
          IN  /\ e.sum <= MIN_LIGHT * e.n => e.level = MIN_BRIGHTNESS
              /\ e.sum >= MAX_LIGHT * e.n => e.level = MAX_BRIGHTNESS
              /\ MIN_BRIGHTNESS <= e.level /\ e.level <= MAX_BRIGHTNESS
    /\ \A i, j \in 1..Len(exported) :
          MeanLeq(exported[i], exported[j]) => exported[i].level <= exported[j].level

\* five dark readings, mean below MIN_LIGHT, give MIN_BRIGHTNESS
C11_Witness ==
    /\ light_readings = <<DarkLight, DarkLight, DarkLight, DarkLight, DarkLight>>
    /\ Len(exported) = 2
    /\ exported[2].sum = 5 * DarkLight /\ exported[2].level = MIN_BRIGHTNESS
    /\ DarkLight < MIN_LIGHT

-----------------------------------------------------------------------------
(* Claims about the restored settings *)

(* C12: whenever the mode loop enters load_current_example, mode is in     *)
(* 0..3 and effect is in 0..len(effects)-1, for every restored settings    *)
(* file and every sequence of accepted button events.                      *)
C12_IntentInRange ==
    pc = "chain0" => /\ mode \in 0..(ModeCount - 1)
                     /\ effect \in 0..(Len(effects) - 1)

\* a stored mode of 4 went through the whole chain and the task died at line 302
C12_StoredModeCrashes ==
    pc = "crashed" /\ ~in_loop /\ mode = ModeCount /\ edges_left = RestoreEdges

-----------------------------------------------------------------------------
(* Claims about the ranges of level and brightness *)

(* C13: after construction with a level argument and after every           *)
(* set_level and adjust, level is in 0..100.                               *)
C13_LevelInRange == level \in 0..100

\* set_level left a level above 100 in place
C13_SetLevelKeepsExcess == last_op = "set_level" /\ level = 100 + LevelExcess

InUnit(x) == 0 <= x /\ x <= Scale

(* C14: started from an actuator brightness in [0,1], current_brightness   *)
(* is in [0,1] and so is every value given to galactic.set_brightness,     *)
(* whatever update, adjust, set_level, set_mode and toggle_mode calls are  *)
(* made.                                                                   *)
C14_BrightnessInUnit ==
    /\ InUnit(current_brightness)
    /\ InUnit(actuator)
    /\ \A i \in 1..Len(writes) : InUnit(writes[i])

\* with a level above 100 in manual mode update() has brought the brightness to 1
C14_Witness ==
    /\ brightness_mode = MODE_MANUAL
    /\ level > 100
    /\ last_op = "update"
    /\ current_brightness = Scale
    /\ writes = <<Scale>>
    /\ prev_current < Scale

-----------------------------------------------------------------------------
(* Claims about the renderer tasks *)

(* C15: no replaced clock object is left with is_running set, so no frame  *)
(* is ever drawn by a replaced clock, and when load_example creates the    *)
(* new clock and its task the old one has already been told to stop.       *)
C15_OneRendererLive ==
    /\ stale_running = 0
    /\ frame_by # "stale"
    /\ pc = "construct" => (clock = NoClock \/ ~clock.is_running)

\* the loop has replaced the clock example() started, and the new one draws
C15_Witness ==
    /\ in_loop /\ tick.detected /\ tick.stops = 1 /\ tick.starts = 1
    /\ frame_by = "current" /\ clock.is_running

-----------------------------------------------------------------------------
(* Claims about the startup *)

-----------------------------------------------------------------------------
(* Claims about button interrupts inside load_current_example *)

\* load_current_example has returned and has not been entered again
Returned == pc = "stamp" \/ (in_loop /\ pc \in {"cmp", "persist", "sleep"})

(* C17: whenever load_current_example has returned, the applied state      *)
(* (current_mode, current_effect, current_am_pm) is what the running       *)
(* clock was built with, whatever button handlers ran in between.          *)
C17_AppliedMatchesRenderer ==
    Returned => /\ clock.kw = current_mode
                /\ clock.effect = current_effect
                /\ clock.am_pm = current_am_pm

\* the intent equals the applied state, so no tick will reload, yet the clock
\* on display was built for another mode
C17_UndetectedMismatch ==
    /\ Returned /\ pc = "sleep" /\ edges_left = 0
    /\ mode = current_mode /\ effect = current_effect /\ am_pm_mode = current_am_pm
    /\ clock.kw # mode

-----------------------------------------------------------------------------
(* Claims about the eventual settings write *)

Intent == [mode |-> mode, effect |-> effect, am_pm_mode |-> am_pm_mode]

\* some button handler has run, and no further edge will arrive
LastEventAccepted ==
    /\ edges_left = 0
    /\ \E b \in Buttons : lastFiredAge[b] # None

(* C18: once the last button event has been accepted, a settings write     *)
(* eventually occurs and the record written is the final intent.           *)
C18_EventuallyWritten == LastEventAccepted ~> (settings = Intent)

\* the same for the runs in which the task does not die
C18_EventuallyWrittenUnlessCrashed ==
    LastEventAccepted ~> (settings = Intent \/ pc = "crashed")

\* the same for the events accepted once the task is in its loop, the task alive
C18_EventuallyWrittenInLoop ==
    (LastEventAccepted /\ detections # <<>>) ~> (settings = Intent \/ pc = "crashed")

-----------------------------------------------------------------------------
(* Claims about the brightness buttons in auto mode *)

AutoPress ==
    /\ last_op \in {"brightness_up", "brightness_down"}
    /\ brightness_mode = MODE_AUTO

(* C19 (as stated): in auto mode a brightness button handler leaves level, *)
(* current_brightness and stable_target as they were and writes nothing    *)
(* to the actuator.                                                        *)
C19_AutoPressChangesNothing ==
    AutoPress => /\ level = op_start_level
                 /\ current_brightness = op_start_current
                 /\ ~stable_changed
                 /\ writes = <<>>

(* C19 (amended): in auto mode adjust() changes and writes nothing, so the *)
(* handler leaves level as it was; its update() then runs as any update(): *)
(* it makes exactly one actuator write, of the current_brightness it       *)
(* leaves, at most one ramp step from the value before the press.          *)
C19_AutoPressIsOneUpdate ==
    AutoPress => /\ level = op_start_level
                 /\ writes = <<current_brightness>>
                 /\ actuator = current_brightness
                 /\ Abs(current_brightness - op_start_current) <= step

\* a press in auto mode moved the brightness by a ramp step and wrote it
C19_Witness ==
    /\ AutoPress
    /\ Abs(current_brightness - op_start_current) = step
    /\ writes = <<current_brightness>>
    /\ level = op_start_level

-----------------------------------------------------------------------------
(* Claims about a brightness button interrupting update() *)

(* C20: in manual mode, once a brightness button handler has returned,     *)
(* current_brightness, stable_target and the actuator stay at              *)
(* clamp(level / 100), the value the handler left, whatever update() of    *)
(* the loop was in progress.                                               *)
C20_LoopKeepsHandlerValue ==
    (pressed /\ brightness_mode = MODE_MANUAL) =>
        /\ current_brightness = Max(0, Min(Scale, (level * Scale) \div 100))
        /\ actuator = current_brightness
        /\ stable_target = current_brightness

\* the loop's update() wrote a value computed from the level before the press
C20_StaleWrite ==
    /\ pressed /\ last_op = "loop_update" /\ upc = "idle"
    /\ level = 55 /\ actuator = (53 * Scale) \div 100 /\ stable_target = Scale \div 2

=============================================================================
